---- MODULE Spec2Model ----
(***************************************************************************)
(* A model of the imgtourl client library (index.js): the Image2UrlClient  *)
(* constructor, createClientFromEnv, the three upload entry points and the *)
(* single PutObject call they make.                                        *)
(*                                                                         *)
(* JavaScript strings are sequences of one-character strings, so that the  *)
(* regular-expression replacements, trim, startsWith, toLowerCase and the  *)
(* path functions are computed character by character.  A value that may   *)
(* be undefined is a set: {} is undefined and {v} is the value v.  A       *)
(* Buffer is its byte length, the only property of it the library reads.   *)
(***************************************************************************)
EXTENDS Integers, Sequences, FiniteSets, TLC

(***************************************************************************)
(* Optional values (undefined | v) and the ?? operator.                    *)
(***************************************************************************)
None == {}

Some(v) == {v}

The(o) == CHOOSE v \in o : TRUE

\* a ?? b
OrElse(o, d) == IF o = None THEN d ELSE The(o)

(***************************************************************************)
(* String primitives.                                                      *)
(***************************************************************************)
UpperLetters ==
  <<"A","B","C","D","E","F","G","H","I","J","K","L","M",
    "N","O","P","Q","R","S","T","U","V","W","X","Y","Z">>

LowerLetters ==
  <<"a","b","c","d","e","f","g","h","i","j","k","l","m",
    "n","o","p","q","r","s","t","u","v","w","x","y","z">>

Digits == <<"0","1","2","3","4","5","6","7","8","9">>

\* String.prototype.trim removes these from both ends.
WhiteSpace == {" ", "\t", "\n", "\r"}

\* The characters the dot of a regular expression does not match.
LineTerminators == {"\n", "\r"}

StartsWith(s, p) == Len(s) >= Len(p) /\ SubSeq(s, 1, Len(p)) = p

Drop(s, n) == SubSeq(s, n + 1, Len(s))

\* The positions of s holding character c.
Positions(s, c) == {i \in 1..Len(s) : s[i] = c}

Max(S) == CHOOSE x \in S : \A y \in S : y <= x

Min(S) == CHOOSE x \in S : \A y \in S : x <= y

\* The length of the longest prefix of s made of characters of set C.
LeadingRun(s, C) ==
  IF \A i \in 1..Len(s) : s[i] \in C THEN Len(s)
  ELSE Min({i \in 1..Len(s) : s[i] \notin C}) - 1

\* The length of the longest suffix of s made of characters of set C.
TrailingRun(s, C) ==
  IF \A i \in 1..Len(s) : s[i] \in C THEN Len(s)
  ELSE Len(s) - Max({i \in 1..Len(s) : s[i] \notin C})

StripLeading(s, C) == Drop(s, LeadingRun(s, C))

StripTrailing(s, C) == SubSeq(s, 1, Len(s) - TrailingRun(s, C))

\* String.prototype.trim
Trim(s) == StripTrailing(StripLeading(s, WhiteSpace), WhiteSpace)

ToLowerChar(c) ==
  IF \E i \in 1..Len(UpperLetters) : UpperLetters[i] = c
  THEN LowerLetters[CHOOSE i \in 1..Len(UpperLetters) : UpperLetters[i] = c]
  ELSE c

\* String.prototype.toLowerCase
ToLowerCase(s) == [i \in 1..Len(s) |-> ToLowerChar(s[i])]

\* s.replace(c, ''): the first occurrence of character c removed.
RemoveFirst(s, c) ==
  IF Positions(s, c) = {} THEN s
  ELSE LET i == Min(Positions(s, c))
       IN  SubSeq(s, 1, i - 1) \o Drop(s, i)

\* s.replace(/c/g, d): every occurrence of character c replaced by d.
ReplaceAll(s, c, d) == [i \in 1..Len(s) |-> IF s[i] = c THEN d ELSE s[i]]

RECURSIVE NumberToString(_)
\* `${n}` for a non-negative integer n: its decimal digits.
NumberToString(n) ==
  IF n < 10 THEN <<Digits[n + 1]>>
  ELSE NumberToString(n \div 10) \o <<Digits[(n % 10) + 1]>>

(***************************************************************************)
(* node:path (POSIX).                                                      *)
(***************************************************************************)
\* path.basename(p): the last segment of p, trailing separators ignored.
basename(p) ==
  LET q == StripTrailing(p, {"/"})
  IN  IF Positions(q, "/") = {} THEN q
      ELSE Drop(q, Max(Positions(q, "/")))

\* path.extname(p): from the last dot of the basename to its end; empty when
\* there is no dot, when the only dot leads the basename, and for "..".
extname(p) ==
  LET b == basename(p)
      dots == Positions(b, ".")
  IN  IF dots = {} THEN <<>>
      ELSE LET d == Max(dots)
           IN  IF d = 1 THEN <<>>
               ELSE IF b = <<".", ".">> THEN <<>>
               ELSE Drop(b, d - 1)

(***************************************************************************)
(* The library's string helpers.                                           *)
(***************************************************************************)
trimTrailingSlash(value) == StripTrailing(value, {"/"})

trimSlashes(value) == StripTrailing(StripLeading(value, {"/"}), {"/"})

normalizeKey(key) == ReplaceAll(StripLeading(key, {"/"}), "\\", "/")

buildPublicUrl(base, key) ==
  LET normalizedBase == trimTrailingSlash(base)
      normalizedKey == StripLeading(key, {"/"})
  IN  normalizedBase \o <<"/">> \o normalizedKey

(***************************************************************************)
(* Content types and extensions.                                           *)
(***************************************************************************)
DEFAULT_MAX_SIZE == 2 * 1024 * 1024

\* A cache-control header of one hour.
HourCacheControl ==
  <<"p","u","b","l","i","c",","," ","m","a","x","-","a","g","e","=","3","6","0","0">>

DEFAULT_CACHE_CONTROL ==
  <<"p","u","b","l","i","c",","," ","m","a","x","-","a","g","e","=",
    "3","1","5","3","6","0","0","0">>

ImageSlash == <<"i","m","a","g","e","/">>

image_jpeg == ImageSlash \o <<"j","p","e","g">>

image_png == ImageSlash \o <<"p","n","g">>

image_gif == ImageSlash \o <<"g","i","f">>

image_webp == ImageSlash \o <<"w","e","b","p">>

image_bmp == ImageSlash \o <<"b","m","p">>

image_svg == ImageSlash \o <<"s","v","g","+","x","m","l">>

image_tiff == ImageSlash \o <<"t","i","f","f">>

image_x_icon == ImageSlash \o <<"x","-","i","c","o","n">>

\* The table MIME_BY_EXT as a set of <<extension, MIME type>> pairs.
MIME_BY_EXT ==
  { << <<".","j","p","g">>, image_jpeg >>,
    << <<".","j","p","e","g">>, image_jpeg >>,
    << <<".","p","n","g">>, image_png >>,
    << <<".","g","i","f">>, image_gif >>,
    << <<".","w","e","b","p">>, image_webp >>,
    << <<".","b","m","p">>, image_bmp >>,
    << <<".","s","v","g">>, image_svg >>,
    << <<".","t","i","f">>, image_tiff >>,
    << <<".","t","i","f","f">>, image_tiff >>,
    << <<".","i","c","o">>, image_x_icon >> }

\* The table EXT_BY_MIME as a set of <<MIME type, extension>> pairs.
EXT_BY_MIME ==
  { << image_jpeg, <<"j","p","g">> >>,
    << image_png, <<"p","n","g">> >>,
    << image_gif, <<"g","i","f">> >>,
    << image_webp, <<"w","e","b","p">> >>,
    << image_bmp, <<"b","m","p">> >>,
    << image_svg, <<"s","v","g">> >>,
    << image_tiff, <<"t","i","f","f">> >>,
    << image_x_icon, <<"i","c","o">> >> }

\* table[k]: undefined when k is no key of the table.
Lookup(table, k) == {e[2] : e \in {x \in table : x[1] = k}}

\* originalName is string | undefined; the result is string | undefined.
guessContentType(originalName) ==
  IF originalName = None \/ originalName = Some(<<>>) THEN None
  ELSE Lookup(MIME_BY_EXT, ToLowerCase(extname(The(originalName))))

\* guessExtension looking at the content type before the filename.
guessExtensionByType(originalName, contentType) ==
  LET nameExt == IF originalName = None \/ originalName = Some(<<>>) THEN <<>>
                 ELSE ToLowerCase(RemoveFirst(extname(The(originalName)), "."))
  IN  IF Lookup(EXT_BY_MIME, contentType) # None THEN Lookup(EXT_BY_MIME, contentType)
      ELSE IF nameExt # <<>> THEN Some(nameExt)
      ELSE None

\* originalName is string | undefined; the result is string | undefined.
guessExtension(originalName, contentType) ==
  LET nameExt == IF originalName = None \/ originalName = Some(<<>>) THEN <<>>
                 ELSE ToLowerCase(RemoveFirst(extname(The(originalName)), "."))
  IN  IF nameExt # <<>> THEN Some(nameExt)
      ELSE Lookup(EXT_BY_MIME, contentType)

\* ensureImageContentType without its startsWith('image/') test.
ensureAnyContentType(contentType) ==
  IF contentType = <<>> THEN [error |-> Some("NoContentType"), value |-> contentType]
  ELSE [error |-> None, value |-> contentType]

\* The outcome of ensureImageContentType: the error it throws, or none and the
\* content type it returns.
ensureImageContentType(contentType) ==
  IF contentType = <<>> THEN [error |-> Some("NoContentType"), value |-> contentType]
  ELSE IF ~StartsWith(contentType, ImageSlash)
       THEN [error |-> Some("NotImage"), value |-> contentType]
       ELSE [error |-> None, value |-> contentType]

(***************************************************************************)
(* Buffer.from(s, 'base64'), as Node decodes it: characters outside the    *)
(* alphabet are skipped, '=' ends the input, and every four sextets give   *)
(* three bytes (two give one byte, three give two, a lone one is dropped). *)
(***************************************************************************)
Base64Alphabet == UpperLetters \o LowerLetters \o Digits \o <<"+", "/">>

\* The sextet of character c, or 64 when c is not a base64 character.
unbase64(c) ==
  IF \E i \in 1..64 : Base64Alphabet[i] = c
  THEN (CHOOSE i \in 1..64 : Base64Alphabet[i] = c) - 1
  ELSE IF c = "-" THEN 62
  ELSE IF c = "_" THEN 63
  ELSE 64

\* The sextets decoded from s: those of its legal characters before any '='.
Sextets(s) ==
  LET upto == IF Positions(s, "=") = {} THEN s
              ELSE SubSeq(s, 1, Min(Positions(s, "=")) - 1)
  IN  SelectSeq([i \in 1..Len(upto) |-> unbase64(upto[i])], LAMBDA v : v < 64)

RECURSIVE Base64Bytes(_)
\* The bytes a sequence of sextets makes.
Base64Bytes(x) ==
  IF Len(x) < 2 THEN <<>>
  ELSE LET b1 == ((x[1] % 64) * 4) + (x[2] \div 16)
       IN  IF Len(x) = 2 THEN <<b1>>
           ELSE LET b2 == ((x[2] % 16) * 16) + (x[3] \div 4)
                IN  IF Len(x) = 3 THEN <<b1, b2>>
                    ELSE <<b1, b2, ((x[3] % 4) * 64) + x[4]>>
                         \o Base64Bytes(Drop(x, 4))

BufferFromBase64(s) == Base64Bytes(Sextets(s))

DataColon == <<"d","a","t","a",":">>

SemicolonBase64Comma == <<";","b","a","s","e","6","4",",">>

\* value.match(/^data:([^;]+);base64,(.+)$/): undefined, or <<mime, encoded>>.
dataUriMatch(value) ==
  IF ~StartsWith(value, DataColon) THEN None
  ELSE LET rest == Drop(value, Len(DataColon))
       IN  IF Positions(rest, ";") = {} THEN None
           ELSE LET semi == Min(Positions(rest, ";"))
                    mime == SubSeq(rest, 1, semi - 1)
                    tail == Drop(rest, semi - 1)
                    encoded == Drop(tail, Len(SemicolonBase64Comma))
                IN  IF /\ mime # <<>>
                       /\ \A i \in 1..Len(mime) : mime[i] \notin LineTerminators
                       /\ StartsWith(tail, SemicolonBase64Comma)
                       /\ encoded # <<>>
                       /\ \A i \in 1..Len(encoded) : encoded[i] \notin LineTerminators
                    THEN Some(<<mime, encoded>>)
                    ELSE None

UploadDot == <<"u","p","l","o","a","d",".">>

\* decodeBase64(input): the buffer (its bytes), and the content type and the
\* original name a data URI gives.
decodeBase64(input) ==
  LET value == Trim(input)
      m == dataUriMatch(value)
  IN  IF m # None
      THEN [buffer |-> BufferFromBase64(The(m)[2]),
            contentType |-> Some(The(m)[1]),
            originalName |->
              Some(UploadDot \o OrElse(Lookup(EXT_BY_MIME, The(m)[1]), <<"j","p","g">>))]
      ELSE [buffer |-> BufferFromBase64(value),
            contentType |-> None,
            originalName |-> None]

(***************************************************************************)
(* Metadata.  A Record<string, string> is a function from its keys.        *)
(***************************************************************************)
RECURSIVE PadStart(_, _)
\* String(n).padStart(w, '0')
PadStart(s, w) == IF Len(s) >= w THEN s ELSE PadStart(<<"0">> \o s, w)

\* new Date(t).toISOString() for a time t of the first second of the epoch.
toISOString(t) ==
  <<"1","9","7","0","-","0","1","-","0","1","T","0","0",":","0","0",":","0","0",".">>
    \o PadStart(NumberToString(t), 3) \o <<"Z">>

\* buildMetadata with the caller's pairs spread last, over the library's.
buildMetadataCallerLast(metadata, originalName, now) ==
  LET caller == OrElse(metadata, <<>>)
      own == IF originalName # None /\ originalName # Some(<<>>)
             THEN [k \in {"original-name", "upload-time"} |->
                     IF k = "original-name" THEN The(originalName) ELSE toISOString(now)]
             ELSE [k \in {"upload-time"} |-> toISOString(now)]
  IN  [k \in DOMAIN own \cup DOMAIN caller |->
         IF k \in DOMAIN caller THEN caller[k] ELSE own[k]]

\* metadata is Record | undefined, originalName is string | undefined; now is
\* the clock read by new Date().
buildMetadata(metadata, originalName, now) ==
  LET result == OrElse(metadata, <<>>)
      named == IF originalName # None /\ originalName # Some(<<>>)
               THEN [k \in DOMAIN result \cup {"original-name"} |->
                       IF k = "original-name" THEN The(originalName) ELSE result[k]]
               ELSE result
  IN  [k \in DOMAIN named \cup {"upload-time"} |->
         IF k = "upload-time" THEN toISOString(now) ELSE named[k]]

(***************************************************************************)
(* Configuration.                                                          *)
(***************************************************************************)
\* !value for value : string | undefined
Falsy(value) == value = None \/ value = Some(<<>>)

\* requireValue(value, field): the error it throws, or none.
requireValue(value, field) ==
  IF Falsy(value) THEN Some(<<"Missing", field>>) ELSE None

\* The first error of a sequence of checks made in order, or none.
FirstError(checks) ==
  IF \A i \in 1..Len(checks) : checks[i] = None THEN None
  ELSE checks[Min({i \in 1..Len(checks) : checks[i] # None})]

\* The constructor without its check of secretAccessKey.
Image2UrlClientUnchecked(config) ==
  [error |-> FirstError(<<requireValue(config.bucket, "bucket"),
                          requireValue(config.publicUrl, "publicUrl"),
                          requireValue(config.accountId, "accountId"),
                          requireValue(config.accessKeyId, "accessKeyId")>>),
   fields |-> [bucket |-> OrElse(config.bucket, <<>>),
               publicUrl |-> trimTrailingSlash(OrElse(config.publicUrl, <<>>)),
               prefix |-> trimSlashes(OrElse(config.keyPrefix, <<"i","m","a","g","e","s">>)),
               maxSize |-> OrElse(config.maxSizeBytes, DEFAULT_MAX_SIZE),
               cacheControl |-> OrElse(config.cacheControl, DEFAULT_CACHE_CONTROL)]]

\* The constructor: the error it throws, or none and the client's fields.
\* The S3 client it builds is the remote end of Send, and holds no state read
\* here.
Image2UrlClient(config) ==
  [error |-> FirstError(<<requireValue(config.bucket, "bucket"),
                          requireValue(config.publicUrl, "publicUrl"),
                          requireValue(config.accountId, "accountId"),
                          requireValue(config.accessKeyId, "accessKeyId"),
                          requireValue(config.secretAccessKey, "secretAccessKey")>>),
   fields |-> [bucket |-> OrElse(config.bucket, <<>>),
               publicUrl |-> trimTrailingSlash(OrElse(config.publicUrl, <<>>)),
               prefix |-> trimSlashes(OrElse(config.keyPrefix, <<"i","m","a","g","e","s">>)),
               maxSize |-> OrElse(config.maxSizeBytes, DEFAULT_MAX_SIZE),
               cacheControl |-> OrElse(config.cacheControl, DEFAULT_CACHE_CONTROL)]]

\* firstEnv(env, keys): the value of the first key of keys that env defines.
firstEnv(env, keys) ==
  IF \A i \in 1..Len(keys) : keys[i] \notin DOMAIN env THEN None
  ELSE Some(env[keys[Min({i \in 1..Len(keys) : keys[i] \in DOMAIN env})]])

RECURSIVE DecimalValue(_)
\* The number a string of decimal digits denotes.
DecimalValue(s) ==
  IF s = <<>> THEN 0
  ELSE DecimalValue(SubSeq(s, 1, Len(s) - 1)) * 10
       + ((CHOOSE i \in 1..10 : Digits[i] = s[Len(s)]) - 1)

\* parseOptionalNumber(value), for strings of digits, letters and white space:
\* Number() of a blank string is 0, of a digit string its value, and is NaN
\* (not finite, so undefined) for any other such string.
parseOptionalNumber(value) ==
  IF value = None THEN None
  ELSE LET t == Trim(The(value))
       IN  IF \A i \in 1..Len(t) : \E d \in 1..10 : Digits[d] = t[i]
           THEN Some(DecimalValue(t))
           ELSE None

ACCOUNT_ID_KEYS ==
  <<"R2_ACCOUNT_ID", "IMGTOURL_ACCOUNT_ID", "IMAGETOURL_ACCOUNT_ID", "IMAGE2URL_ACCOUNT_ID">>

ACCESS_KEY_ID_KEYS ==
  <<"R2_ACCESS_KEY_ID", "IMGTOURL_ACCESS_KEY_ID", "IMAGETOURL_ACCESS_KEY_ID",
    "IMAGE2URL_ACCESS_KEY_ID">>

SECRET_ACCESS_KEY_KEYS ==
  <<"R2_SECRET_ACCESS_KEY", "IMGTOURL_SECRET_ACCESS_KEY", "IMAGETOURL_SECRET_ACCESS_KEY",
    "IMAGE2URL_SECRET_ACCESS_KEY">>

BUCKET_KEYS ==
  <<"R2_BUCKET_NAME", "IMGTOURL_BUCKET", "IMAGETOURL_BUCKET", "IMAGE2URL_BUCKET">>

PUBLIC_URL_KEYS ==
  <<"R2_PUBLIC_URL", "IMGTOURL_PUBLIC_URL", "IMAGETOURL_PUBLIC_URL", "IMAGE2URL_PUBLIC_URL">>

PREFIX_KEYS == <<"IMGTOURL_PREFIX", "IMAGETOURL_PREFIX", "IMAGE2URL_PREFIX">>

MAX_SIZE_KEYS == <<"IMGTOURL_MAX_SIZE", "IMAGETOURL_MAX_SIZE", "IMAGE2URL_MAX_SIZE">>

\* The configuration createClientFromEnv hands to the constructor.
EnvConfig(env) ==
  [accountId |-> firstEnv(env, ACCOUNT_ID_KEYS),
   accessKeyId |-> firstEnv(env, ACCESS_KEY_ID_KEYS),
   secretAccessKey |-> firstEnv(env, SECRET_ACCESS_KEY_KEYS),
   bucket |-> firstEnv(env, BUCKET_KEYS),
   publicUrl |-> firstEnv(env, PUBLIC_URL_KEYS),
   keyPrefix |-> firstEnv(env, PREFIX_KEYS),
   maxSizeBytes |-> parseOptionalNumber(firstEnv(env, MAX_SIZE_KEYS)),
   cacheControl |-> None]

\* createClientFromEnv(env): the error thrown, or none and the client's fields.
\* Its own requireValue calls run, in argument order, before the constructor.
createClientFromEnv(env) ==
  LET config == EnvConfig(env)
      early == FirstError(<<requireValue(config.accountId, "R2_ACCOUNT_ID"),
                            requireValue(config.accessKeyId, "R2_ACCESS_KEY_ID"),
                            requireValue(config.secretAccessKey, "R2_SECRET_ACCESS_KEY"),
                            requireValue(config.bucket, "R2_BUCKET_NAME"),
                            requireValue(config.publicUrl, "R2_PUBLIC_URL")>>)
  IN  IF early # None
      THEN [error |-> early, fields |-> Image2UrlClient(config).fields]
      ELSE Image2UrlClient(config)

(***************************************************************************)
(* uploadBuffer up to the point where it sends.                            *)
(***************************************************************************)
\* key and originalName are string | undefined; now is Date.now() and uuid is
\* randomUUID().
buildKey(prefix, key, originalName, contentType, now, uuid) ==
  IF key # None /\ Len(Trim(The(key))) > 0
  THEN normalizeKey(The(key))
  ELSE LET extension == OrElse(guessExtension(originalName, contentType), <<"j","p","g">>)
           filename == NumberToString(now) \o <<"-">> \o uuid \o <<".">> \o extension
       IN  IF prefix # <<>> THEN prefix \o <<"/">> \o filename ELSE filename

\* The size checks with the limit itself refused (>= for >).
checkSizeExclusive(length, maxSize) ==
  IF length = 0 THEN Some("EmptyFile")
  ELSE IF length >= maxSize THEN Some("TooLarge")
  ELSE None

\* The size checks of uploadBuffer: the error thrown, or none.
checkSize(length, maxSize) ==
  IF length = 0 THEN Some("EmptyFile")
  ELSE IF length > maxSize THEN Some("TooLarge")
  ELSE None

\* uploadBuffer(data, options) on client this, for a buffer of `length` bytes:
\* the error thrown before sending, or none and the PutObjectCommand built.
\* now1 and uuid are read by buildKey, now2 by buildMetadata.
uploadBuffer(this, length, options, now1, uuid, now2) ==
  LET sizeError == checkSize(length, this.maxSize)
      checked == ensureImageContentType(
                   OrElse(options.contentType,
                          OrElse(guessContentType(options.originalName), image_jpeg)))
      contentType == checked.value
      key == buildKey(this.prefix, options.key, options.originalName, contentType,
                      now1, uuid)
      metadata == buildMetadata(options.metadata, options.originalName, now2)
  IN  IF sizeError # None THEN [error |-> sizeError, command |-> None]
      ELSE IF checked.error # None THEN [error |-> checked.error, command |-> None]
      ELSE [error |-> None,
            command |-> Some([Bucket |-> this.bucket,
                              Key |-> key,
                              Body |-> length,
                              ContentType |-> contentType,
                              ContentLength |-> length,
                              CacheControl |-> this.cacheControl,
                              Metadata |-> metadata])]

\* The options uploadFile passes on to uploadBuffer.
uploadFileOptions(filePath, options) ==
  LET originalName == OrElse(options.originalName, basename(filePath))
  IN  [options EXCEPT !.originalName = Some(originalName),
                      !.contentType = IF options.contentType # None
                                      THEN options.contentType
                                      ELSE guessContentType(Some(originalName))]

\* The options uploadBase64 passes on to uploadBuffer.
uploadBase64Options(decoded, options) ==
  [options EXCEPT !.originalName = IF options.originalName # None
                                   THEN options.originalName
                                   ELSE decoded.originalName,
                  !.contentType = IF options.contentType # None
                                  THEN options.contentType
                                  ELSE decoded.contentType]

(***************************************************************************)
(* Inputs.                                                                 *)
(***************************************************************************)
\* The clock reads 0..MaxClock milliseconds.
MaxClock == 1

\* A configured size limit, next to the default one.
SmallLimit == 2

UUIDs == {<<"u","1">>, <<"u","2">>}

ETags == {None, Some(<<"e">>)}

text_plain == <<"t","e","x","t","/","p","l","a","i","n">>

image_unlisted == ImageSlash \o <<"a","v","i","f">>

custom_cache == <<"n","o","-","s","t","o","r","e">>

RequiredChoices == {None, Some(<<>>), Some(<<"v">>)}

PublicUrlChoices == {None, Some(<<>>), Some(<<"h">>), Some(<<"h","/","/">>)}

KeyPrefixChoices == {None, Some(<<>>), Some(<<"/","p","/","q","/">>)}

MaxSizeChoices == {None, Some(0), Some(SmallLimit)}

CacheControlChoices == {None, Some(custom_cache)}

\* The configurations tried: every way of leaving the required fields unset,
\* empty or set, and, with the required fields set, every choice of the
\* optional ones.
Configs ==
  [accountId : RequiredChoices, accessKeyId : RequiredChoices,
   secretAccessKey : RequiredChoices, bucket : RequiredChoices,
   publicUrl : PublicUrlChoices, keyPrefix : {None},
   maxSizeBytes : {None}, cacheControl : {None}]
    \cup
  [accountId : {Some(<<"v">>)}, accessKeyId : {Some(<<"v">>)},
   secretAccessKey : {Some(<<"v">>)}, bucket : {Some(<<"b">>)},
   publicUrl : {Some(<<"h">>), Some(<<"h","/","/">>)}, keyPrefix : KeyPrefixChoices,
   maxSizeBytes : MaxSizeChoices, cacheControl : CacheControlChoices]

\* The environments tried: these variables set,
EnvBase ==
  [n \in {"R2_ACCESS_KEY_ID", "IMGTOURL_SECRET_ACCESS_KEY", "R2_PUBLIC_URL"} |-> <<"v">>]

\* and each of these unset or set to one of its values.
EnvVary ==
  [R2_ACCOUNT_ID |-> {<<>>, <<"v">>},
   IMAGE2URL_ACCOUNT_ID |-> {<<"w">>},
   R2_BUCKET_NAME |-> {<<>>, <<"b">>},
   IMAGETOURL_PREFIX |-> {<<"p","/">>},
   IMGTOURL_MAX_SIZE |-> {<<"2">>, <<"x">>}]

Envs ==
  UNION {{EnvBase @@ e : e \in {f \in [D -> UNION {EnvVary[n] : n \in D}] :
                                  \A n \in D : f[n] \in EnvVary[n]}} :
         D \in SUBSET DOMAIN EnvVary}

KeyChoices ==
  {None, Some(<<>>), Some(<<" ">>), Some(<<"/","k">>), Some(<<"\\","k">>),
   Some(<<"d","\\","k">>)}

NameChoices ==
  {None, Some(<<>>), Some(<<"A",".","G","I","F">>), Some(<<"a">>),
   Some(<<"a",".","t","x","t">>)}

ContentTypeChoices ==
  {None, Some(<<>>), Some(image_png), Some(image_unlisted), Some(text_plain)}

MetadataChoices ==
  {None, Some([k \in {"album", "original-name", "upload-time"} |-> <<"z">>])}

\* The options tried: every key with and without a name, and, with no key,
\* every name, content type and metadata.
Options ==
  [key : KeyChoices, originalName : {None, Some(<<"A",".","G","I","F">>)},
   contentType : {None}, metadata : {None}]
    \cup
  [key : {None}, originalName : NameChoices, contentType : ContentTypeChoices,
   metadata : MetadataChoices]

Lengths == {0, 1, SmallLimit, SmallLimit + 1, DEFAULT_MAX_SIZE, DEFAULT_MAX_SIZE + 1}

Paths == {<<"/","d","/","c",".","p","n","g">>, <<"/","d","/","c">>}

\* What fs.stat and fs.readFile find at a path.
Files ==
  [kind : {"missing", "directory"}, size : {0}]
    \cup [kind : {"file"}, size : {0, 1, SmallLimit + 1}]

Payloads == {<<"Q","U","J","D">>, <<"Q","Q","=","=">>, <<"!","Q","U","J","D">>, <<"!","Q">>}

Base64Inputs ==
  Payloads
    \cup {DataColon \o m \o SemicolonBase64Comma \o p :
            m \in {image_png, text_plain}, p \in Payloads}
    \cup {<<" ">> \o DataColon \o image_gif \o SemicolonBase64Comma \o <<"Q","Q","\n">>,
          DataColon \o image_gif \o SemicolonBase64Comma \o <<"Q","\n","Q">>}

(***************************************************************************)
(* State.                                                                  *)
(***************************************************************************)
VARIABLES
  ctor,       \* how the client is made: a config, or an environment
  ctorError,  \* the error construction threw, if any
  client,     \* the client's fields, once constructed
  pc,         \* "new", "failed", "idle", "sending" or "settled"
  call,       \* the upload invocation in progress: entry point and arguments
  entered,    \* the arguments uploadBuffer was entered with
  frame,      \* uploadBuffer's locals while it awaits the send
  puts,       \* the PutObjectCommands sent during this invocation
  outcome     \* how the invocation's promise settled

vars == <<ctor, ctorError, client, pc, call, entered, frame, puts, outcome>>

callVars == <<call, entered, frame, puts, outcome>>

Init ==
  /\ ctor \in [via : {"config"}, config : Configs] \cup [via : {"env"}, env : Envs]
  /\ ctorError = None
  /\ client = None
  /\ pc = "new"
  /\ call = None
  /\ entered = None
  /\ frame = None
  /\ puts = <<>>
  /\ outcome = None

\* The end of a construction attempt whose outcome is made.
Constructed(made) ==
  /\ ctorError' = made.error
  /\ client' = IF made.error = None THEN Some(made.fields) ELSE None
  /\ pc' = IF made.error = None THEN "idle" ELSE "failed"
  /\ UNCHANGED <<ctor, callVars>>

\* new Image2UrlClient(config)
Construct ==
  /\ pc = "new"
  /\ ctor.via = "config"
  /\ Constructed(Image2UrlClient(ctor.config))

\* createClientFromEnv(env)
CreateFromEnv ==
  /\ pc = "new"
  /\ ctor.via = "env"
  /\ Constructed(createClientFromEnv(ctor.env))

\* The invocation ends before uploadBuffer is entered.
Reject(error) ==
  /\ outcome' = Some([status |-> "rejected", error |-> error])
  /\ pc' = "settled"
  /\ UNCHANGED <<entered, frame, puts>>

\* uploadBuffer runs on `length` bytes up to its await: it throws, or sends
\* one PutObjectCommand.
EnterUploadBuffer(length, options) ==
  \E now1 \in 0..MaxClock, uuid \in UUIDs :
    \E now2 \in now1..MaxClock :
      LET run == uploadBuffer(The(client), length, options, now1, uuid, now2)
      IN  /\ entered' = Some([length |-> length, options |-> options])
          /\ IF run.error # None
             THEN /\ outcome' = Some([status |-> "rejected", error |-> The(run.error)])
                  /\ pc' = "settled"
                  /\ UNCHANGED <<frame, puts>>
             ELSE /\ puts' = Append(puts, The(run.command))
                  /\ frame' = Some([key |-> The(run.command).Key,
                                    contentType |-> The(run.command).ContentType,
                                    length |-> length])
                  /\ pc' = "sending"
                  /\ UNCHANGED outcome

UploadBuffer ==
  /\ pc = "idle"
  /\ \E length \in Lengths, options \in Options :
       /\ call' = Some([op |-> "uploadBuffer", options |-> options,
                        arg |-> [length |-> length]])
       /\ EnterUploadBuffer(length, options)
  /\ UNCHANGED <<ctor, ctorError, client>>

UploadFile ==
  /\ pc = "idle"
  /\ \E filePath \in Paths, file \in Files, options \in Options :
       /\ call' = Some([op |-> "uploadFile", options |-> options,
                        arg |-> [filePath |-> filePath, file |-> file]])
       /\ IF file.kind = "missing" THEN Reject("ENOENT")
          ELSE IF file.kind # "file" THEN Reject("NotAFile")
          ELSE EnterUploadBuffer(file.size, uploadFileOptions(filePath, options))
  /\ UNCHANGED <<ctor, ctorError, client>>

UploadBase64 ==
  /\ pc = "idle"
  /\ \E base64 \in Base64Inputs, options \in Options :
       LET decoded == decodeBase64(base64)
       IN  /\ call' = Some([op |-> "uploadBase64", options |-> options,
                            arg |-> [base64 |-> base64]])
           /\ EnterUploadBuffer(Len(decoded.buffer), uploadBase64Options(decoded, options))
  /\ UNCHANGED <<ctor, ctorError, client>>

\* The result uploadBuffer returns once the send has answered with etag.
uploadResult(this, locals, etag) ==
  [url |-> buildPublicUrl(this.publicUrl, locals.key),
   key |-> locals.key,
   bucket |-> this.bucket,
   size |-> locals.length,
   type |-> locals.contentType,
   etag |-> etag]

\* this.client.send(uploadCommand) resolves.
SendSucceeds ==
  /\ pc = "sending"
  /\ \E etag \in ETags :
       outcome' = Some([status |-> "fulfilled",
                        result |-> uploadResult(The(client), The(frame), etag)])
  /\ pc' = "settled"
  /\ UNCHANGED <<ctor, ctorError, client, call, entered, frame, puts>>

\* A send that, rejected, is made once more before the failure is reported.
SendFailsAfterRetry ==
  /\ pc = "sending"
  /\ puts' = Append(puts, puts[Len(puts)])
  /\ outcome' = Some([status |-> "rejected", error |-> "RemoteFailure"])
  /\ pc' = "settled"
  /\ UNCHANGED <<ctor, ctorError, client, call, entered, frame>>

\* this.client.send(uploadCommand) rejects.
SendFails ==
  /\ pc = "sending"
  /\ outcome' = Some([status |-> "rejected", error |-> "RemoteFailure"])
  /\ pc' = "settled"
  /\ UNCHANGED <<ctor, ctorError, client, call, entered, frame, puts>>

\* The caller, handed the settled promise, is free to call again.
CallerResumes ==
  /\ pc = "settled"
  /\ pc' = "idle"
  /\ call' = None
  /\ entered' = None
  /\ frame' = None
  /\ puts' = <<>>
  /\ outcome' = None
  /\ UNCHANGED <<ctor, ctorError, client>>

Next ==
  \/ Construct
  \/ CreateFromEnv
  \/ UploadBuffer
  \/ UploadFile
  \/ UploadBase64
  \/ SendSucceeds
  \/ SendFails
  \/ CallerResumes

Spec == Init /\ [][Next]_vars

(***************************************************************************)
(* What the properties below read off a state.                             *)
(***************************************************************************)
\* The configuration the constructor is handed.
GivenConfig == IF ctor.via = "config" THEN ctor.config ELSE EnvConfig(ctor.env)

Invoked == call # None

Rejected == outcome # None /\ The(outcome).status = "rejected"

Fulfilled == outcome # None /\ The(outcome).status = "fulfilled"

RejectedWith(errors) == Rejected /\ The(outcome).error \in errors

\* The original filename of the invocation: the one given in the options, else
\* the basename of the file path, else the name made up for a data URI.
KnownName ==
  LET c == The(call)
  IN  IF c.options.originalName # None THEN c.options.originalName
      ELSE IF c.op = "uploadFile" THEN Some(basename(c.arg.filePath))
      ELSE IF c.op = "uploadBase64" THEN decodeBase64(c.arg.base64).originalName
      ELSE None

\* The content type of the invocation: the explicit option, else the MIME type
\* of the data URI, else the type inferred from the filename's extension;
\* undefined when there is none of them.
ResolvedContentType ==
  LET c == The(call)
      dataUriMime == IF c.op = "uploadBase64"
                     THEN decodeBase64(c.arg.base64).contentType
                     ELSE None
  IN  IF c.options.contentType # None THEN c.options.contentType
      ELSE IF dataUriMime # None THEN dataUriMime
      ELSE guessContentType(KnownName)

IsImageType(type) == StartsWith(type, <<"i","m","a","g","e","/">>)

(***************************************************************************)
(* C1.  Only image content types are stored: an upload whose resolved      *)
(* content type (explicit option, else data-URI MIME, else inferred from   *)
(* the filename) does not begin with "image/" fails and sends no put       *)
(* request; every put request and every result carries a content type      *)
(* beginning with "image/".                                                *)
(***************************************************************************)
C1_OnlyImageTypes ==
  /\ \A i \in 1..Len(puts) : IsImageType(puts[i].ContentType)
  /\ Fulfilled => IsImageType(The(outcome).result.type)
  /\ (Invoked /\ ResolvedContentType # None /\ ~IsImageType(The(ResolvedContentType)))
       => (puts = <<>> /\ Rejected)

\* C1, reached: a data URI of type text/plain, of acceptable size, was refused
\* for its type.
C1_Witness ==
  /\ Invoked
  /\ The(call).op = "uploadBase64"
  /\ The(call).options.contentType = None
  /\ ResolvedContentType = Some(text_plain)
  /\ RejectedWith({"NotImage"})
  /\ puts = <<>>

TwoMiB == 2097152

SizeErrors == {"EmptyFile", "TooLarge"}

(***************************************************************************)
(* C2.  uploadBuffer lets a payload of n bytes past its size validation    *)
(* exactly when 1 <= n <= maxSize, maxSize being the configured            *)
(* maxSizeBytes, or 2097152 when none is configured; an empty payload and  *)
(* one above maxSize are rejected before any put request is sent.          *)
(***************************************************************************)
C2_SizeAcceptance ==
  entered # None =>
    LET n == The(entered).length
        maxSize == OrElse(GivenConfig.maxSizeBytes, TwoMiB)
    IN  /\ (~RejectedWith(SizeErrors)) <=> (1 <= n /\ n <= maxSize)
        /\ n = 0 => (RejectedWith({"EmptyFile"}) /\ puts = <<>>)
        /\ n > maxSize => (RejectedWith({"TooLarge"}) /\ puts = <<>>)

\* C2, reached: a payload of exactly maxSize bytes is on its way to the store.
C2_Witness ==
  /\ entered # None
  /\ The(entered).length = OrElse(GivenConfig.maxSizeBytes, TwoMiB)
  /\ pc = "sending"
  /\ Len(puts) = 1

(***************************************************************************)
(* C3.  The url of a successful upload is the configured public base URL,  *)
(* trailing slashes removed, then one "/", then the returned key; and the  *)
(* returned key is the key sent in the put request.                        *)
(***************************************************************************)
C3_UrlIsBasePlusKey ==
  Fulfilled =>
    LET result == The(outcome).result
        base == StripTrailing(The(GivenConfig.publicUrl), {"/"})
    IN  /\ Len(puts) = 1
        /\ result.key = puts[1].Key
        /\ result.url = base \o <<"/">> \o result.key

KeySupplied ==
  /\ The(call).options.key # None
  /\ \E i \in 1..Len(The(The(call).options.key)) :
       The(The(call).options.key)[i] \notin WhiteSpace

\* The characters of s that are neither slashes nor backslashes, in order.
OtherCharacters(s) == SelectSeq(s, LAMBDA c : c \notin {"/", "\\"})

\* The keys buildKey may generate for extension ext under the configured prefix.
GeneratedKeys(ext) ==
  LET prefix == StripTrailing(StripLeading(
                  OrElse(GivenConfig.keyPrefix, <<"i","m","a","g","e","s">>), {"/"}), {"/"})
      lead == IF prefix = <<>> THEN <<>> ELSE prefix \o <<"/">>
  IN  {lead \o NumberToString(t) \o <<"-">> \o u \o <<".">> \o ext :
         t \in 0..MaxClock, u \in UUIDs}

\* The extension the generated key is to carry, given the filename's.
ExtensionOr(nameExt, type) ==
  IF nameExt # <<>> THEN nameExt ELSE OrElse(Lookup(EXT_BY_MIME, type), <<"j","p","g">>)

\* The extension of the original filename, without its dot.
NameExtension ==
  IF KnownName = None THEN <<>> ELSE RemoveFirst(extname(The(KnownName)), ".")

(***************************************************************************)
(* C4.  A supplied key that is not blank is used path-normalized and       *)
(* nothing else: no prefix, timestamp or random id; no leading "/" and no  *)
(* backslash, every other character unchanged.  An absent, empty or        *)
(* white-space key counts as not supplied, and a key is generated.         *)
(***************************************************************************)
C4_SuppliedKeyNormalized ==
  \A i \in 1..Len(puts) :
    LET sent == puts[i].Key
    IN  IF KeySupplied
        THEN LET key == The(The(call).options.key)
             IN  /\ sent = <<>> \/ sent[1] # "/"
                 /\ \A j \in 1..Len(sent) : sent[j] # "\\"
                 /\ OtherCharacters(sent) = OtherCharacters(key)
                 /\ Len(sent) <= Len(key)
        ELSE sent \in GeneratedKeys(
               ExtensionOr(ToLowerCase(NameExtension), puts[i].ContentType))

(***************************************************************************)
(* C5.  With no key supplied the key is <prefix>/<millis>-<id>.<ext>:      *)
(* <prefix> the configured prefix without leading and trailing slashes     *)
(* (default "images"; an empty prefix gives the bare filename), <ext> the  *)
(* original filename's extension when it has one, else the extension the   *)
(* MIME table maps the resolved content type to, else "jpg".               *)
(***************************************************************************)
C5_GeneratedKeyForm ==
  \A i \in 1..Len(puts) :
    ~KeySupplied =>
      puts[i].Key \in GeneratedKeys(ExtensionOr(NameExtension, puts[i].ContentType))

\* C5, amended: as C5, with <ext> the original filename's extension in lower
\* case when it has one.
C5_GeneratedKeyFormLowerCase ==
  \A i \in 1..Len(puts) :
    ~KeySupplied =>
      puts[i].Key \in GeneratedKeys(
        ExtensionOr(ToLowerCase(NameExtension), puts[i].ContentType))

\* C5, reached: a key was generated under a configured prefix for a file named
\* A.GIF.
C5_Witness ==
  /\ Invoked
  /\ ~KeySupplied
  /\ Len(puts) = 1
  /\ KnownName = Some(<<"A",".","G","I","F">>)
  /\ GivenConfig.keyPrefix = Some(<<"/","p","/","q","/">>)
  /\ puts[1].Key \in GeneratedKeys(<<"g","i","f">>)

ValidationErrors ==
  {"ENOENT", "NotAFile", "EmptyFile", "TooLarge", "NoContentType", "NotImage"}

(***************************************************************************)
(* C6.  An upload invocation sends at most one put request: one when       *)
(* validation passes, none when it fails.  A failure of that request is    *)
(* passed on to the caller: no second request, no result.                  *)
(***************************************************************************)
C6_AtMostOnePut ==
  /\ Len(puts) <= 1
  /\ Invoked => Len(puts) = (IF RejectedWith(ValidationErrors) THEN 0 ELSE 1)
  /\ RejectedWith({"RemoteFailure"}) => (Len(puts) = 1 /\ ~Fulfilled)
  /\ Fulfilled => Len(puts) = 1

\* C6, reached: the one request failed and the caller was handed the failure.
C6_Witness ==
  /\ pc = "settled"
  /\ RejectedWith({"RemoteFailure"})
  /\ Len(puts) = 1

\* The part of the input that is to be base64.
Base64Payload(input) ==
  LET value == Trim(input)
  IN  IF dataUriMatch(value) # None THEN The(dataUriMatch(value))[2] ELSE value

\* RFC 4648: groups of four characters of the alphabet, the last one padded
\* with at most two '='.
IsBase64(s) ==
  /\ Len(s) % 4 = 0
  /\ \A i \in 1..Len(s) :
       \/ \E j \in 1..64 : Base64Alphabet[j] = s[i]
       \/ s[i] = "=" /\ i > Len(s) - 2 /\ \A j \in i..Len(s) : s[j] = "="

(***************************************************************************)
(* C7.  uploadBase64 of a string that is not base64, bare or as the        *)
(* payload of a data URI, fails before any put request is sent.            *)
(***************************************************************************)
C7_InvalidBase64Rejected ==
  (Invoked /\ The(call).op = "uploadBase64"
     /\ ~IsBase64(Base64Payload(The(call).arg.base64)))
    => (puts = <<>> /\ Rejected)

(***************************************************************************)
(* C8.  The metadata of a put request is the caller's pairs, plus          *)
(* 'upload-time' always, plus 'original-name' equal to the original        *)
(* filename when one is known; the caller's other pairs pass unchanged,    *)
(* and where the names collide the library's value wins.                   *)
(***************************************************************************)
C8_Metadata ==
  \A i \in 1..Len(puts) :
    LET sent == puts[i].Metadata
        caller == OrElse(The(call).options.metadata, <<>>)
        named == KnownName # None /\ KnownName # Some(<<>>)
    IN  /\ DOMAIN sent = DOMAIN caller \cup {"upload-time"}
                           \cup (IF named THEN {"original-name"} ELSE {})
        /\ sent["upload-time"] \in {toISOString(t) : t \in 0..MaxClock}
        /\ named => sent["original-name"] = The(KnownName)
        /\ \A k \in DOMAIN caller \ {"upload-time", "original-name"} : sent[k] = caller[k]
        /\ (~named /\ "original-name" \in DOMAIN caller)
             => sent["original-name"] = caller["original-name"]

\* C8, reached: a request went out whose caller had supplied both of the
\* library's names.
C8_Witness ==
  /\ Len(puts) = 1
  /\ The(call).op = "uploadFile"
  /\ The(call).options.originalName = None
  /\ The(call).options.metadata # None
  /\ "original-name" \in DOMAIN The(The(call).options.metadata)
  /\ puts[1].Metadata["original-name"] = <<"c",".","p","n","g">>
  /\ puts[1].Metadata["album"] = <<"z">>

FixedCacheControl ==
  <<"p","u","b","l","i","c",","," ","m","a","x","-","a","g","e","=",
    "3","1","5","3","6","0","0","0">>

(***************************************************************************)
(* C9.  Every put request carries the cache-control header                 *)
(* "public, max-age=31536000".                                             *)
(***************************************************************************)
C9_FixedCacheControl ==
  \A i \in 1..Len(puts) : puts[i].CacheControl = FixedCacheControl

\* C9, amended: every put request carries the client's cacheControl, which is
\* the fixed header unless the configuration gives another; the options of
\* the upload play no part.
C9_ConfiguredCacheControl ==
  \A i \in 1..Len(puts) :
    puts[i].CacheControl = OrElse(GivenConfig.cacheControl, FixedCacheControl)

\* C9, reached: a client configured without cacheControl sent a request whose
\* options were all given.
C9_Witness ==
  /\ Len(puts) = 1
  /\ GivenConfig.cacheControl = None
  /\ The(call).options.metadata # None
  /\ The(call).options.contentType # None
  /\ The(call).options.originalName # None
  /\ puts[1].CacheControl = FixedCacheControl

RequiredFields == {"bucket", "publicUrl", "accountId", "accessKeyId", "secretAccessKey"}

Incomplete(config) ==
  \E f \in RequiredFields : config[f] = None \/ config[f] = Some(<<>>)

(***************************************************************************)
(* C10.  Construction fails with a missing-configuration error whenever    *)
(* bucket, publicUrl, accountId, accessKeyId or secretAccessKey is absent  *)
(* or empty, so that no client, upload or put request exists then; the     *)
(* absence of keyPrefix, maxSizeBytes or cacheControl never makes it fail. *)
(***************************************************************************)
C10_MissingConfiguration ==
  /\ pc # "new" => ((ctorError # None) <=> Incomplete(GivenConfig))
  /\ ctorError # None => The(ctorError)[1] = "Missing"
  /\ Incomplete(GivenConfig) => (client = None /\ ~Invoked /\ puts = <<>>)
  /\ client # None => ctorError = None

\* C10, reached: the constructor refused a configuration whose only fault is
\* an empty secretAccessKey.
C10_Witness ==
  /\ pc = "failed"
  /\ ctor.via = "config"
  /\ ctor.config.secretAccessKey = Some(<<>>)
  /\ \A f \in RequiredFields \ {"secretAccessKey"} : ~Falsy(ctor.config[f])
  /\ ctorError = Some(<<"Missing", "secretAccessKey">>)
  /\ client = None

(***************************************************************************)
(* C11.  When no content type is supplied and none can be inferred from    *)
(* the original filename (no name, or an extension outside the table), the *)
(* upload fails with the 'Unable to determine content type' error and      *)
(* sends no put request; nothing is stored under a content type that was   *)
(* neither supplied nor inferred from an image extension.                  *)
(***************************************************************************)
C11_UndeterminedTypeRejected ==
  /\ (entered # None /\ ResolvedContentType = None /\ ~RejectedWith(SizeErrors))
       => (puts = <<>> /\ RejectedWith({"NoContentType"}))
  /\ \A i \in 1..Len(puts) : ResolvedContentType = Some(puts[i].ContentType)

====
